---- MODULE Spec2Model ----
(***************************************************************************)
(* A model of .github/scripts/auto_release.py: the linear release flow of  *)
(* main() and the text splice of update_changelog().                       *)
(*                                                                         *)
(* Texts (the changelog, a changelog entry) are sequences of one-character *)
(* strings, as Python's str values are.  A version "A.B.C" is the tuple    *)
(* <<A, B, C>>; a string that is no three-component version is a tuple of  *)
(* another length.  External commands and the API are inputs: each exit    *)
(* status and each response is drawn with \E from a small set.  An         *)
(* external command is taken to have had its effect exactly when it exits  *)
(* with status 0.  The working directory is taken to hold a readable       *)
(* package.json with a "version" field and a readable CHANGELOG.md, and    *)
(* the file named by GITHUB_OUTPUT to be writable.                         *)
(***************************************************************************)
EXTENDS Integers, Sequences, FiniteSets

VARIABLES
    pc,               \* the statement main() executes next, or "exited"
    exit_status,      \* <<>> while the process runs, then <<its exit status>>
    env,              \* os.environ: variable name -> set and non-empty
    package_json,     \* the "version" field of the file package.json
    changelog,        \* the text of the file CHANGELOG.md
    current_version,  \* main's local current_version (<<>> until read)
    version_bump,     \* main's local version_bump ("" until decided)
    new_version,      \* main's local new_version (<<>> until decided)
    changelog_entry,  \* main's local changelog_entry (<<>> until decided)
    content,          \* update_changelog's local content: the text it read
    printed,          \* the last error report the process printed
    trace,            \* history: the steps started, each with its outcome
    touches,          \* history: the shared resources mutated, in order
    output_file,      \* the lines appended to the file $GITHUB_OUTPUT
    original,         \* history: CHANGELOG.md as it was at the start
    spliced           \* history: the entries update_changelog has written

vars == <<pc, exit_status, env, package_json, changelog, current_version,
          version_bump, new_version, changelog_entry, content, printed,
          trace, touches, output_file, original, spliced>>

-----------------------------------------------------------------------------
(* Bounds of the model. *)

\* CHANGELOG.md holds at most this many pieces in a run of main().
RunBlocks == 3

\* CHANGELOG.md holds at most this many pieces when update_changelog is
\* checked alone.
MaxBlocks == 5

\* update_changelog alone is called at most this many times in a row.
MaxSplices == 2

-----------------------------------------------------------------------------
(* Texts. *)

LF == "\n"

\* The literal the regular expression of update_changelog starts with.
Marker == <<"#", "#", " ", "[", "U", "n", "r", "e", "l", "e", "a", "s", "e", "d", "]">>

\* The pieces the texts of the model are concatenated from: the marker, a
\* marker cut short (no match for the literal), a line break, another
\* character.
Pieces == {Marker, <<"#", "#", " ", "[">>, <<LF>>, <<"x">>}

RECURSIVE Texts(_)
Texts(n) ==
    IF n = 0 THEN {<<>>}
    ELSE LET shorter == Texts(n - 1)
         IN  shorter \cup {t \o p : t \in shorter, p \in Pieces}

Min(S) == CHOOSE m \in S : \A o \in S : m <= o
Max(S) == CHOOSE m \in S : \A o \in S : m >= o

\* The positions (1-based) of the line breaks of text after position from.
NewlinesAfter(text, from) == {i \in (from + 1)..Len(text) : text[i] = LF}

\* Whether the literal "## [Unreleased]" stands in text at position s.
LiteralAt(text, s) ==
    /\ s + Len(Marker) - 1 <= Len(text)
    /\ SubSeq(text, s, s + Len(Marker) - 1) = Marker

\* MatchAt with both quantifiers greedy (.* for .*?).
MatchAtGreedy(text, s) ==
    IF ~LiteralAt(text, s) THEN <<>>
    ELSE LET firsts == {i \in NewlinesAfter(text, s + Len(Marker) - 1) :
                            NewlinesAfter(text, i) # {}}
         IN  IF firsts = {} THEN <<>>
             ELSE <<Max(NewlinesAfter(text, Max(firsts)))>>

\* MatchAt without the group (.*?\n): one line break is enough.
MatchAtOneLine(text, s) ==
    IF ~LiteralAt(text, s) THEN <<>>
    ELSE LET firsts == NewlinesAfter(text, s + Len(Marker) - 1)
         IN  IF firsts = {} THEN <<>> ELSE <<Min(firsts)>>

\* The match of r'## \[Unreleased\].*?\n(.*?\n)' (re.DOTALL) anchored at
\* position s: <<>> when there is none, else <<e>> with e the number of
\* characters before the match's end (Python's match.end()).  Both .*? are
\* lazy and, under DOTALL, may run over line breaks: the backtracking
\* matcher returns the match whose first .*? is shortest and, for that one,
\* whose second .*? is shortest.
MatchAt(text, s) ==
    IF ~LiteralAt(text, s) THEN <<>>
    ELSE LET firsts == {i \in NewlinesAfter(text, s + Len(Marker) - 1) :
                            NewlinesAfter(text, i) # {}}
         IN  IF firsts = {} THEN <<>>
             ELSE <<Min(NewlinesAfter(text, Min(firsts)))>>

\* ReSearch answering the top of the text when nothing matches.
ReSearchOrTop(text) ==
    LET hits == {s \in 1..Len(text) : MatchAt(text, s) # <<>>}
    IN  IF hits = {} THEN <<0>> ELSE MatchAt(text, Min(hits))

\* ReSearch answering the match at the rightmost position that has one.
ReSearchLast(text) ==
    LET hits == {s \in 1..Len(text) : MatchAt(text, s) # <<>>}
    IN  IF hits = {} THEN <<>> ELSE MatchAt(text, Max(hits))

\* re.search: the match at the leftmost position that has one.
ReSearch(text) ==
    LET hits == {s \in 1..Len(text) : MatchAt(text, s) # <<>>}
    IN  IF hits = {} THEN <<>> ELSE MatchAt(text, Min(hits))

\* content[:insert_pos] + "\n" + changelog_entry + "\n\n" + content[insert_pos:]
NewContent(text, insert_pos, entry) ==
    SubSeq(text, 1, insert_pos) \o <<LF>> \o entry \o <<LF, LF>>
        \o SubSeq(text, insert_pos + 1, Len(text))

-----------------------------------------------------------------------------
(* Inputs. *)

EnvNames == {"BASE_SHA", "HEAD_SHA", "ANTHROPIC_API_KEY",
             "WILDESTAI_AZURE_PUBLISH_PAT", "OPENVSX_TOKEN", "GITHUB_OUTPUT"}

\* The exit statuses an external command ends with.
ExitCodes == {0, 1}

\* The versions package.json holds when a run starts.
InitialVersions == {<<1, 2, 3>>, <<0, 9, 0>>}

\* "1.2": a string that is no three-component version.
Malformed == <<1, 2>>

\* The strings the API answers in the field version_bump.
BumpInputs == {"patch", "minor", "major", "breaking"}

\* The strings the API answers in the field new_version, for current
\* version cur: its three increments, itself, a lower one, a malformed one.
VersionInputs(cur) ==
    {<<cur[1], cur[2], cur[3] + 1>>, <<cur[1], cur[2] + 1, 0>>,
     <<cur[1] + 1, 0, 0>>, cur, <<0, 0, 1>>, Malformed}

\* The texts the API answers in the field changelog_entry in a run.
EntryInputs == {<<"#", "#", " ", "[", "1", "]", LF, "x">>, Marker \o <<LF, LF>>}

\* What client.messages.create and the parsing of its answer come to: an
\* exception, or the fields of the JSON text in message.content[0].text
\* (one answer lacks a required field).
ApiOutcomes(cur) ==
    {[raised |-> TRUE, fields |-> <<>>]}
    \cup {[raised |-> FALSE, fields |-> [version_bump |-> "patch", new_version |-> cur]]}
    \cup {[raised |-> FALSE,
           fields |-> [version_bump |-> b, new_version |-> v, changelog_entry |-> e]] :
            b \in BumpInputs, v \in VersionInputs(cur), e \in EntryInputs}

\* VersionAnalysis.model_validate_json: the three fields are required
\* strings; nothing else is validated.
ModelValidates(fields) ==
    {"version_bump", "new_version", "changelog_entry"} \subseteq DOMAIN fields

-----------------------------------------------------------------------------
(* The process. *)

\* sys.exit(status) after print(report), or an uncaught exception (status 1,
\* the report is the traceback).
Exit(status, report) ==
    /\ pc' = "exited"
    /\ exit_status' = <<status>>
    /\ printed' = report

Started(step, ok) == trace' = Append(trace, [step |-> step, ok |-> ok])

\* RunCommandOutcome of a run_command that never looks at the status.
RunCommandOutcomeIgnoring(rc, check) == "return"

\* How run_command(cmd, check) ends for a command that exits with rc:
\* subprocess.run is given check=check and raises CalledProcessError itself
\* on a non-zero status; the test of result.returncode comes after it.
RunCommandOutcome(rc, check) ==
    IF check /\ rc # 0 THEN "CalledProcessError"
    ELSE IF rc # 0 /\ check THEN "sys.exit"
    ELSE "return"

\* run_command(cmd) with the default check=True, for a command that exits
\* with rc; next is the statement that follows the call.
RunCommand(cmd, rc, next) ==
    LET outcome == RunCommandOutcome(rc, TRUE)
    IN  /\ Started(cmd, rc = 0)
        /\ IF outcome = "return"
           THEN /\ pc' = next
                /\ UNCHANGED <<exit_status, printed>>
           ELSE IF outcome = "sys.exit"
           THEN Exit(1, "Error: <stderr>")
           ELSE Exit(1, "Traceback: CalledProcessError")

\* The effect of a command on a resource: had when the command exits with 0.
Touched(resource, rc) ==
    touches' = IF rc = 0 THEN Append(touches, resource) ELSE touches

files == <<package_json, changelog, content, original, spliced, output_file>>
locals == <<current_version, version_bump, new_version, changelog_entry>>

\* main, lines 224-229.
MainCheckEnv ==
    /\ pc = "main"
    /\ IF ~env["BASE_SHA"] \/ ~env["HEAD_SHA"]
       THEN Exit(1, "Error: BASE_SHA or HEAD_SHA not set")
       ELSE /\ pc' = "get_current_version"
            /\ UNCHANGED <<exit_status, printed>>
    /\ UNCHANGED <<env, files, locals, trace, touches>>

GetCurrentVersion ==
    /\ pc = "get_current_version"
    /\ current_version' = package_json
    /\ Started("get_current_version", TRUE)
    /\ pc' = "get_pr_details"
    /\ UNCHANGED <<exit_status, env, files, version_bump, new_version,
                   changelog_entry, printed, touches>>

GetPrDetails ==
    /\ pc = "get_pr_details"
    /\ \E rc \in ExitCodes : RunCommand("git log", rc, "analyze_version_bump")
    /\ UNCHANGED <<env, files, locals, touches>>

AnalyzeVersionBump ==
    /\ pc = "analyze_version_bump"
    /\ IF ~env["ANTHROPIC_API_KEY"]
       THEN /\ Exit(1, "Error: ANTHROPIC_API_KEY environment variable not set")
            /\ UNCHANGED <<version_bump, new_version, changelog_entry, trace>>
       ELSE \E r \in ApiOutcomes(current_version) :
              IF r.raised \/ ~ModelValidates(r.fields)
              THEN /\ Started("analyze_version_bump", FALSE)
                   /\ Exit(1, "Error calling Claude API")
                   /\ UNCHANGED <<version_bump, new_version, changelog_entry>>
              ELSE /\ Started("analyze_version_bump", TRUE)
                   /\ version_bump' = r.fields.version_bump
                   /\ new_version' = r.fields.new_version
                   /\ changelog_entry' = r.fields.changelog_entry
                   /\ pc' = "update_package_json"
                   /\ UNCHANGED <<exit_status, printed>>
    /\ UNCHANGED <<env, files, current_version, touches>>

\* The three-component versions.
IsVersion(v) == Len(v) = 3

\* npm version <new_version> --no-git-tag-version: npm exits with a non-zero
\* status for a string that is no version and for the version package.json
\* already holds.
UpdatePackageJson ==
    /\ pc = "update_package_json"
    /\ \E rc \in ExitCodes :
          /\ rc = 0 => IsVersion(new_version) /\ new_version # package_json
          /\ RunCommand("npm version", rc, "update_changelog")
          /\ package_json' = IF rc = 0 THEN new_version ELSE package_json
          /\ Touched("package.json", rc)
    /\ UNCHANGED <<env, changelog, content, original, spliced, output_file, locals>>

\* update_changelog(entry): what it does to the file, its local and the
\* histories; found tells whether the search matched.
UpdateChangelogFile(entry, found) ==
    /\ content' = changelog
    /\ IF found
       THEN /\ changelog' = NewContent(changelog, ReSearch(changelog)[1], entry)
            /\ spliced' = Append(spliced, entry)
            /\ touches' = Append(touches, "CHANGELOG.md")
       ELSE UNCHANGED <<changelog, spliced, touches>>

\* UpdateChangelog without the sys.exit(1) of line 160.
UpdateChangelogNoExit ==
    /\ pc = "update_changelog"
    /\ LET found == ReSearch(changelog) # <<>>
       IN  /\ UpdateChangelogFile(changelog_entry, found)
           /\ Started("update_changelog", found)
           /\ pc' = "git config user.name"
           /\ exit_status' = exit_status
           /\ printed' = IF found THEN printed
                         ELSE "Error: Could not find [Unreleased] section in CHANGELOG.md"
    /\ UNCHANGED <<env, package_json, original, output_file, locals>>

UpdateChangelog ==
    /\ pc = "update_changelog"
    /\ LET found == ReSearch(changelog) # <<>>
       IN  /\ UpdateChangelogFile(changelog_entry, found)
           /\ Started("update_changelog", found)
           /\ IF found
              THEN /\ pc' = "git config user.name"
                   /\ UNCHANGED <<exit_status, printed>>
              ELSE Exit(1, "Error: Could not find [Unreleased] section in CHANGELOG.md")
    /\ UNCHANGED <<env, package_json, original, output_file, locals>>

\* commit_and_push, lines 179-183.
GitConfigName ==
    /\ pc = "git config user.name"
    /\ \E rc \in ExitCodes : RunCommand("git config user.name", rc, "git config user.email")
    /\ UNCHANGED <<env, files, locals, touches>>

GitConfigEmail ==
    /\ pc = "git config user.email"
    /\ \E rc \in ExitCodes : RunCommand("git config user.email", rc, "git add")
    /\ UNCHANGED <<env, files, locals, touches>>

GitAdd ==
    /\ pc = "git add"
    /\ \E rc \in ExitCodes : RunCommand("git add", rc, "git commit")
    /\ UNCHANGED <<env, files, locals, touches>>

GitCommit ==
    /\ pc = "git commit"
    /\ \E rc \in ExitCodes : RunCommand("git commit", rc, "git push")
    /\ UNCHANGED <<env, files, locals, touches>>

GitPush ==
    /\ pc = "git push"
    /\ \E rc \in ExitCodes :
          /\ RunCommand("git push", rc, "publish_extension")
          /\ Touched("remote", rc)
    /\ UNCHANGED <<env, files, locals>>

\* publish_extension, lines 188-193.
PublishCheckTokens ==
    /\ pc = "publish_extension"
    /\ IF ~env["WILDESTAI_AZURE_PUBLISH_PAT"] \/ ~env["OPENVSX_TOKEN"]
       THEN Exit(1, "Error: WILDESTAI_AZURE_PUBLISH_PAT or OPENVSX_TOKEN not set")
       ELSE /\ pc' = "npm install"
            /\ UNCHANGED <<exit_status, printed>>
    /\ UNCHANGED <<env, files, locals, trace, touches>>

NpmInstall ==
    /\ pc = "npm install"
    /\ \E rc \in ExitCodes : RunCommand("npm install", rc, "npm run package")
    /\ UNCHANGED <<env, files, locals, touches>>

NpmRunPackage ==
    /\ pc = "npm run package"
    /\ \E rc \in ExitCodes : RunCommand("npm run package", rc, "vsce publish")
    /\ UNCHANGED <<env, files, locals, touches>>

\* VscePublish with line 209's command in the place of line 205's.
VscePublishCopied ==
    /\ pc = "vsce publish"
    /\ \E rc \in ExitCodes :
          /\ RunCommand("vsce publish", rc, "ovsx publish")
          /\ Touched("openvsx", rc)
    /\ UNCHANGED <<env, files, locals>>

VscePublish ==
    /\ pc = "vsce publish"
    /\ \E rc \in ExitCodes :
          /\ RunCommand("vsce publish", rc, "ovsx publish")
          /\ Touched("marketplace", rc)
    /\ UNCHANGED <<env, files, locals>>

OvsxPublish ==
    /\ pc = "ovsx publish"
    /\ \E rc \in ExitCodes :
          /\ RunCommand("ovsx publish", rc, "git tag")
          /\ Touched("openvsx", rc)
    /\ UNCHANGED <<env, files, locals>>

\* create_git_tag, lines 215-216.
GitTag ==
    /\ pc = "git tag"
    /\ \E rc \in ExitCodes : RunCommand("git tag", rc, "git push --tags")
    /\ UNCHANGED <<env, files, locals, touches>>

GitPushTags ==
    /\ pc = "git push --tags"
    /\ \E rc \in ExitCodes :
          /\ RunCommand("git push --tags", rc, "github_output")
          /\ Touched("remote", rc)
    /\ UNCHANGED <<env, files, locals>>

\* main, lines 262-270: the output file, then the end of main (status 0).
WriteOutput ==
    /\ pc = "github_output"
    /\ IF env["GITHUB_OUTPUT"]
       THEN /\ output_file' = output_file \o
                   <<<<"new_version", new_version>>, <<"changelog", changelog_entry>>>>
            /\ Started("write GITHUB_OUTPUT", TRUE)
       ELSE UNCHANGED <<output_file, trace>>
    /\ pc' = "exited"
    /\ exit_status' = <<0>>
    /\ UNCHANGED <<env, package_json, changelog, content, original, spliced,
                   locals, printed, touches>>

Init ==
    /\ pc = "main"
    /\ exit_status = <<>>
    /\ env \in [EnvNames -> BOOLEAN]
    /\ package_json \in InitialVersions
    /\ changelog \in Texts(RunBlocks)
    /\ original = changelog
    /\ current_version = <<>>
    /\ version_bump = ""
    /\ new_version = <<>>
    /\ changelog_entry = <<>>
    /\ content = <<>>
    /\ printed = ""
    /\ trace = <<>>
    /\ touches = <<>>
    /\ output_file = <<>>
    /\ spliced = <<>>

Next ==
    \/ MainCheckEnv
    \/ GetCurrentVersion
    \/ GetPrDetails
    \/ AnalyzeVersionBump
    \/ UpdatePackageJson
    \/ UpdateChangelog
    \/ GitConfigName
    \/ GitConfigEmail
    \/ GitAdd
    \/ GitCommit
    \/ GitPush
    \/ PublishCheckTokens
    \/ NpmInstall
    \/ NpmRunPackage
    \/ VscePublish
    \/ OvsxPublish
    \/ GitTag
    \/ GitPushTags
    \/ WriteOutput

Spec == Init /\ [][Next]_vars

-----------------------------------------------------------------------------
(* update_changelog alone: called again and again on the same file, as by  *)
(* one release after another.                                              *)

\* The entries update_changelog is called with when it is checked alone.
SpliceEntries == {<<"x">>, <<LF>>, Marker, Marker \o <<LF, LF>>}

UpdateChangelogAlone ==
    /\ pc = "update_changelog"
    /\ Len(spliced) < MaxSplices
    /\ \E entry \in SpliceEntries :
          LET found == ReSearch(changelog) # <<>>
          IN  /\ changelog_entry' = entry
              /\ UpdateChangelogFile(entry, found)
              /\ Started("update_changelog", found)
              /\ IF found
                 THEN UNCHANGED <<pc, exit_status, printed>>
                 ELSE Exit(1, "Error: Could not find [Unreleased] section in CHANGELOG.md")
    /\ UNCHANGED <<env, package_json, original, output_file, current_version,
                   version_bump, new_version>>

InitSplice ==
    /\ pc = "update_changelog"
    /\ exit_status = <<>>
    /\ env = [n \in EnvNames |-> TRUE]
    /\ package_json = <<1, 2, 3>>
    /\ changelog \in Texts(MaxBlocks)
    /\ original = changelog
    /\ current_version = <<1, 2, 3>>
    /\ version_bump = "patch"
    /\ new_version = <<1, 2, 4>>
    /\ changelog_entry = <<>>
    /\ content = <<>>
    /\ printed = ""
    /\ trace = <<>>
    /\ touches = <<>>
    /\ output_file = <<>>
    /\ spliced = <<>>

SpecSplice == InitSplice /\ [][UpdateChangelogAlone]_vars

-----------------------------------------------------------------------------
(* What the claims speak of. *)

Exited == pc = "exited"
ExitedNonZero == Exited /\ exit_status # <<>> /\ exit_status # <<0>>

StepStarted(step) == \E i \in 1..Len(trace) : trace[i].step = step
StepOk(step) == \E i \in 1..Len(trace) : trace[i].step = step /\ trace[i].ok
StepFailed(step) == \E i \in 1..Len(trace) : trace[i].step = step /\ ~trace[i].ok

\* The commands main issues through run_command.
Commands ==
    {"git log", "npm version", "git config user.name", "git config user.email",
     "git add", "git commit", "git push", "npm install", "npm run package",
     "vsce publish", "ovsx publish", "git tag", "git push --tags"}

\* The steps of main in their order; the last one is taken only when
\* GITHUB_OUTPUT is set.
StepOrder ==
    <<"get_current_version", "git log", "analyze_version_bump", "npm version",
      "update_changelog", "git config user.name", "git config user.email",
      "git add", "git commit", "git push", "npm install", "npm run package",
      "vsce publish", "ovsx publish", "git tag", "git push --tags",
      "write GITHUB_OUTPUT">>

Count(x, seq) == Cardinality({i \in 1..Len(seq) : seq[i] = x})

IsPrefix(a, b) == Len(a) <= Len(b) /\ a = SubSeq(b, 1, Len(a))

HasMarker(text) == \E s \in 1..Len(text) : LiteralAt(text, s)

\* The position of the first "## [Unreleased]" of a text that has one.
FirstMarker(text) == Min({s \in 1..Len(text) : LiteralAt(text, s)})

\* The text after the first marker holds at least two line breaks.
TwoLinesFollow(text) ==
    /\ HasMarker(text)
    /\ Cardinality(NewlinesAfter(text, FirstMarker(text) + Len(Marker) - 1)) >= 2

\* The offset just past the end of the line that follows the header line of
\* the first marker: the header line ends at the first line break after the
\* marker's start, the following line at the next one.
OffsetAfterNextLine(text) ==
    LET header_end == Min(NewlinesAfter(text, FirstMarker(text)))
    IN  Min(NewlinesAfter(text, header_end))

\* An entry as update_changelog wraps it.
Block(entry) == <<LF>> \o entry \o <<LF, LF>>

\* text without the n characters that follow offset p.
Deleted(text, p, n) == SubSeq(text, 1, p) \o SubSeq(text, p + n + 1, Len(text))

\* The blocks of the entries, the last one first.
RECURSIVE NewestFirst(_)
NewestFirst(entries) ==
    IF entries = <<>> THEN <<>>
    ELSE Block(entries[Len(entries)]) \o NewestFirst(SubSeq(entries, 1, Len(entries) - 1))

\* a < b in the order of semantic versioning.
SemverLess(a, b) ==
    \/ a[1] < b[1]
    \/ a[1] = b[1] /\ a[2] < b[2]
    \/ a[1] = b[1] /\ a[2] = b[2] /\ a[3] < b[3]

\* new is cur incremented by the rule of bump.
IncrementRule(cur, bump, new) ==
    \/ bump = "patch" /\ new = <<cur[1], cur[2], cur[3] + 1>>
    \/ bump = "minor" /\ new = <<cur[1], cur[2] + 1, 0>>
    \/ bump = "major" /\ new = <<cur[1] + 1, 0, 0>>

MissingEnvReports ==
    {"Error: BASE_SHA or HEAD_SHA not set",
     "Error: ANTHROPIC_API_KEY environment variable not set",
     "Error: WILDESTAI_AZURE_PUBLISH_PAT or OPENVSX_TOKEN not set"}

-----------------------------------------------------------------------------
(* The claims. *)

\* C1: a command issued through run_command that exits with a non-zero
\* status is the last step the run ever starts, and the run has then ended
\* with a non-zero exit status.
C1_FailedCommandEndsRun ==
    \A i \in 1..Len(trace) :
        (trace[i].step \in Commands /\ ~trace[i].ok)
            => /\ i = Len(trace)
               /\ ExitedNonZero

\* C1, witness: a command late in the run (vsce publish) has failed.
C1_Witness ==
    /\ StepFailed("vsce publish")
    /\ StepOk("git push")

C3_NoMarkerNoWrite ==
    ~HasMarker(original) =>
        /\ changelog = original
        /\ Count("CHANGELOG.md", touches) = 0
        /\ \A step \in {"git commit", "git push", "vsce publish",
                        "ovsx publish", "git tag", "git push --tags"} :
               ~StepStarted(step)
        /\ StepStarted("update_changelog") =>
               /\ StepFailed("update_changelog")
               /\ ExitedNonZero
               /\ printed = "Error: Could not find [Unreleased] section in CHANGELOG.md"

\* C3, witness: update_changelog was called on a non-empty text that holds
\* no marker.
C3_Witness ==
    /\ ~HasMarker(original)
    /\ original # <<>>
    /\ StepStarted("update_changelog")

\* C4 (as claimed): a decision that analyze_version_bump returns to main has
\* a new_version that is a version, follows the increment rule of its
\* version_bump and is greater than the current version.
C4_DecisionIsIncrement ==
    StepOk("analyze_version_bump") =>
        /\ IsVersion(new_version)
        /\ IncrementRule(current_version, version_bump, new_version)
        /\ SemverLess(current_version, new_version)

\* C5 (as claimed): when the run ends on the report of a missing environment
\* variable, no external command has been run, neither file is modified and
\* nothing is pushed or published.
C5_MissingEnvBeforeWork ==
    (Exited /\ printed \in MissingEnvReports) =>
        /\ \A c \in Commands : ~StepStarted(c)
        /\ changelog = original
        /\ touches = <<>>

\* C6 (as claimed): when a command issued through run_command has exited
\* with a non-zero status, the line "Error: <stderr>" has been printed.
C6_StderrSurfaced ==
    (\E i \in 1..Len(trace) : trace[i].step \in Commands /\ ~trace[i].ok)
        => printed = "Error: <stderr>"

\* C7 (as claimed): every shared resource is mutated at most once in a run
\* and exactly once in a run that ends with status 0.
C7_EachResourceOnce ==
    \A r \in {"package.json", "CHANGELOG.md", "remote", "marketplace", "openvsx"} :
        /\ Count(r, touches) <= 1
        /\ exit_status = <<0>> => Count(r, touches) = 1

\* The order in which a run mutates the shared resources.
TouchOrder ==
    <<"package.json", "CHANGELOG.md", "remote", "marketplace", "openvsx", "remote">>

\* C7 (amended): the mutations of a run are a prefix of package.json,
\* CHANGELOG.md, remote (git push), marketplace, openvsx, remote (git push
\* --tags), and all six in a run that ends with status 0: every resource
\* but the remote is mutated at most once, the remote at most twice.
C7_FixedOrderRemoteTwice ==
    /\ IsPrefix(touches, TouchOrder)
    /\ exit_status = <<0>> => touches = TouchOrder

\* C7, witness: a run has ended with status 0.
C7_Witness ==
    /\ exit_status = <<0>>
    /\ Count("remote", touches) = 2

\* C8: the steps started are the first steps of the fixed order and all but
\* the last one succeeded; tag => both registries => commit pushed =>
\* changelog spliced => package.json bumped => decision validated; a failed
\* decision leaves files, remote and registries alone; status 0 only after
\* every step.
C8_StepsInOrder ==
    /\ \A i \in 1..Len(trace) :
           /\ i <= Len(StepOrder)
           /\ trace[i].step = StepOrder[i]
           /\ i < Len(trace) => trace[i].ok
    /\ StepOk("git tag") => Count("marketplace", touches) = 1 /\ Count("openvsx", touches) = 1
    /\ Count("openvsx", touches) > 0 => Count("marketplace", touches) > 0
    /\ Count("marketplace", touches) > 0 => Count("remote", touches) > 0
    /\ Count("remote", touches) > 0 =>
           /\ StepOk("git commit")
           /\ StepOk("update_changelog")
           /\ spliced = <<changelog_entry>>
           /\ changelog # original
    /\ StepOk("update_changelog") =>
           /\ StepOk("npm version")
           /\ package_json = new_version
    /\ StepOk("npm version") => StepOk("analyze_version_bump")
    /\ StepFailed("analyze_version_bump") =>
           /\ ExitedNonZero
           /\ changelog = original
           /\ package_json = current_version
           /\ touches = <<>>
           /\ ~StepStarted("git commit")
    /\ Exited => exit_status # <<>>
    /\ exit_status = <<0>> =>
           /\ \A i \in 1..(Len(StepOrder) - 1) : StepOk(StepOrder[i])
           /\ env["GITHUB_OUTPUT"] => StepOk("write GITHUB_OUTPUT") /\ output_file # <<>>

\* C8, witness: the decision step failed after git log succeeded.
C8_Witness ==
    /\ StepFailed("analyze_version_bump")
    /\ StepOk("git log")

\* C9: update_changelog succeeds exactly when at least two line breaks
\* follow the first marker; otherwise, marker or not, the run ends with a
\* non-zero status and the file is not written.
C9_SucceedsIffTwoLines ==
    StepStarted("update_changelog") =>
        /\ StepOk("update_changelog") <=> TwoLinesFollow(original)
        /\ StepFailed("update_changelog") =>
               /\ ExitedNonZero
               /\ changelog = original
               /\ Count("CHANGELOG.md", touches) = 0
               /\ printed = "Error: Could not find [Unreleased] section in CHANGELOG.md"

\* C9, witness: update_changelog was called on a text whose marker is
\* followed by fewer than two line breaks.
C9_Witness ==
    /\ StepStarted("update_changelog")
    /\ HasMarker(original)
    /\ ~TwoLinesFollow(original)

====
